---- MODULE Spec2Model ----
(***************************************************************************)
(* Shopping calculator (src/app.py): price parser, settings store, CSV     *)
(* history ledger, graph aggregations and the session cart, as a state     *)
(* machine whose steps are the script runs triggered by one widget.        *)
(*                                                                         *)
(* Text is a sequence of one-character strings.  A Python float is a       *)
(* record: either NaN or an exact decimal counted in units of 10^-MaxLen   *)
(* (binary rounding error is not modelled).                                *)
(***************************************************************************)
EXTENDS Integers, Sequences, FiniteSets, TLC

\* ------------------------------------------------------------------ bounds
MaxLen  == 3   \* longest price text typed into the form
MaxCart == 3   \* longest session cart explored
MaxRows == 2   \* most data rows of history.csv explored by Spec
MaxHist == 6   \* most data rows of the history.csv files SpecTrend starts from
MaxMemoCart == 1   \* longest session cart explored by SpecMemo
MaxMemoRows == 3   \* most data rows of history.csv explored by SpecMemo

\* --------------------------------------------------------- python values
RECURSIVE Pow10(_)
Pow10(n) == IF n = 0 THEN 1 ELSE 10 * Pow10(n - 1)

\* units per 1.0: every decimal a text of MaxLen characters can denote is exact
One == Pow10(MaxLen)

None == [py |-> "None"]
PyStr(s) == [py |-> "str", s |-> s]
PyInt(n) == [py |-> "int", n |-> n]
ValueError == [py |-> "ValueError"]
Float(u) == [py |-> "float", nan |-> FALSE, v |-> u]
NaN == [py |-> "float", nan |-> TRUE, v |-> 0]
IsFloat(x) == x.py = "float"

\* IEEE comparison: every comparison with NaN is false
Lt(a, b) == ~a.nan /\ ~b.nan /\ a.v < b.v
Ge(a, b) == ~a.nan /\ ~b.nan /\ a.v >= b.v
FAdd(a, b) == IF a.nan \/ b.nan THEN NaN ELSE Float(a.v + b.v)

RECURSIVE sum(_)
sum(xs) == IF xs = <<>> THEN Float(0) ELSE FAdd(sum(SubSeq(xs, 1, Len(xs) - 1)), xs[Len(xs)])

\* ------------------------------------------------------------------ text
DigitChars == <<"0", "1", "2", "3", "4", "5", "6", "7", "8", "9">>
IsDigit(c) == \E i \in 1..Len(DigitChars) : DigitChars[i] = c
DigitVal(c) == (CHOOSE i \in 1..Len(DigitChars) : DigitChars[i] = c) - 1

RECURSIVE lstrip(_)
lstrip(s) == IF s # <<>> /\ Head(s) = " " THEN lstrip(Tail(s)) ELSE s
RECURSIVE rstrip(_)
rstrip(s) == IF s # <<>> /\ s[Len(s)] = " " THEN rstrip(SubSeq(s, 1, Len(s) - 1)) ELSE s
strip(s) == rstrip(lstrip(s))

replace_comma(s) == SelectSeq(s, LAMBDA c : c # ",")

\* value of a digit string, most significant digit first
RECURSIVE DigitsVal(_)
DigitsVal(ds) == IF ds = <<>> THEN 0 ELSE 10 * DigitsVal(SubSeq(ds, 1, Len(ds) - 1)) + DigitVal(ds[Len(ds)])

\* decimal digits of a natural number
RECURSIVE NatStr(_)
NatStr(n) == IF n < 10 THEN <<DigitChars[n + 1]>> ELSE NatStr(n \div 10) \o <<DigitChars[(n % 10) + 1]>>

\* position of the first "." of s, or 0
DotPos(s) == IF \E i \in 1..Len(s) : s[i] = "." THEN CHOOSE i \in 1..Len(s) : s[i] = "." /\ \A j \in 1..(i - 1) : s[j] # "." ELSE 0

\* digits [. digits] | . digits, at least one digit
IsDecimal(s) ==
    /\ \A i \in 1..Len(s) : IsDigit(s[i]) \/ s[i] = "."
    /\ Cardinality({i \in 1..Len(s) : s[i] = "."}) <= 1
    /\ \E i \in 1..Len(s) : IsDigit(s[i])

\* the decimal s in units of 10^-MaxLen (digits past that precision are dropped)
DecimalUnits(s) ==
    LET d == DotPos(s)
        ip == IF d = 0 THEN s ELSE SubSeq(s, 1, d - 1)
        fp0 == IF d = 0 THEN <<>> ELSE SubSeq(s, d + 1, Len(s))
        fp == IF Len(fp0) > MaxLen THEN SubSeq(fp0, 1, MaxLen) ELSE fp0
    IN DigitsVal(ip) * One + DigitsVal(fp) * Pow10(MaxLen - Len(fp))

\* float(str): surrounding whitespace ignored, optional sign, "nan" or a decimal;
\* anything else raises ValueError.  (Exponents, "inf" and "_" use characters
\* the texts explored here do not contain.)
float(s) ==
    LET t == strip(s)
        signed == t # <<>> /\ Head(t) \in {"-", "+"}
        neg == t # <<>> /\ Head(t) = "-"
        body == IF signed THEN Tail(t) ELSE t
    IN IF body = <<"n", "a", "n">> THEN NaN
       ELSE IF IsDecimal(body) THEN Float((IF neg THEN -1 ELSE 1) * DecimalUnits(body))
       ELSE ValueError

\* --------------------------------------------------------- price parser
parse_price(text) ==
    LET s == strip(text)
    IN IF s = <<>> THEN None
       ELSE LET value == float(replace_comma(s))
            IN IF value = ValueError THEN None
               ELSE IF Lt(value, Float(0)) THEN None
               ELSE value


\* ------------------------------------------------- str(), round(), strftime
\* n >= 0 divided by d > 0, rounded to the nearest integer, ties to even
RoundHalfEven(n, d) ==
    LET q == n \div d
        r == n % d
    IN IF 2 * r < d THEN q
       ELSE IF 2 * r > d THEN q + 1
       ELSE IF q % 2 = 0 THEN q ELSE q + 1

\* units per 0.01
Cent == One \div 100

\* round(x, 2)
round2(x) == IF x.nan THEN NaN ELSE Float(RoundHalfEven(x.v, Cent) * Cent)

\* round(subtotal * (1 + tax_rate), 2): the product is taken exactly, then rounded
round2_total(subtotal, tax_rate) ==
    IF subtotal.nan \/ tax_rate.nan THEN NaN
    ELSE Float(RoundHalfEven(subtotal.v * (One + tax_rate.v), One * Cent) * Cent)

RECURSIVE rstrip_zeros(_)
rstrip_zeros(ds) == IF Len(ds) > 1 /\ ds[Len(ds)] = "0" THEN rstrip_zeros(SubSeq(ds, 1, Len(ds) - 1)) ELSE ds

\* n as exactly w digits, zero padded on the left
RECURSIVE ZeroPad(_, _)
ZeroPad(n, w) == IF w = 0 THEN <<>> ELSE ZeroPad(n \div 10, w - 1) \o <<DigitChars[(n % 10) + 1]>>

\* repr of a float >= 0: "nan", or integer part, ".", and the fraction without
\* trailing zeros (one digit at least)
float_str(x) ==
    IF x.nan THEN <<"n", "a", "n">>
    ELSE NatStr(x.v \div One) \o <<".">> \o rstrip_zeros(ZeroPad(x.v % One, MaxLen))

\* str(value) as csv.writer applies it to a cell (None is written as "")
str(value) ==
    IF value.py = "str" THEN value.s
    ELSE IF value.py = "int" THEN NatStr(value.n)
    ELSE IF value.py = "float" THEN float_str(value)
    ELSE <<>>

\* datetime.strftime("%Y-%m-%d %H:%M:%S")
strftime(t) ==
    ZeroPad(t.Y, 4) \o <<"-">> \o ZeroPad(t.M, 2) \o <<"-">> \o ZeroPad(t.D, 2) \o <<" ">>
      \o ZeroPad(t.h, 2) \o <<":">> \o ZeroPad(t.m, 2) \o <<":">> \o ZeroPad(t.s, 2)

\* ------------------------------------------------------------------- csv
\* A file is [exists, body]; the body of history.csv is the sequence of its lines
\* (the texts between the "\r\n" terminators).
NoFile == [exists |-> FALSE, body |-> <<>>]
FileOf(body) == [exists |-> TRUE, body |-> body]

NeedsQuote(s) == \E i \in 1..Len(s) : s[i] \in {",", "\""}

RECURSIVE DoubleQuotes(_)
DoubleQuotes(s) ==
    IF s = <<>> THEN <<>>
    ELSE (IF Head(s) = "\"" THEN <<"\"", "\"">> ELSE <<Head(s)>>) \o DoubleQuotes(Tail(s))

\* csv.writer, excel dialect, QUOTE_MINIMAL: one cell
CsvField(s) == IF NeedsQuote(s) THEN <<"\"">> \o DoubleQuotes(s) \o <<"\"">> ELSE s

\* csv.writer: one line from its cells
RECURSIVE CsvLine(_)
CsvLine(cells) ==
    IF cells = <<>> THEN <<>>
    ELSE IF Len(cells) = 1 THEN CsvField(cells[1])
    ELSE CsvField(Head(cells)) \o <<",">> \o CsvLine(Tail(cells))

\* csv.reader (non-strict) on one line, from position i in state st with the
\* current cell cur and the cells done so far
RECURSIVE CsvScan(_, _, _, _, _)
CsvScan(line, i, st, cur, done) ==
    IF i > Len(line)
    THEN IF Len(line) = 0 THEN <<>> ELSE Append(done, cur)
    ELSE LET c == line[i]
         IN CASE st = "start" ->
                   IF c = "\"" THEN CsvScan(line, i + 1, "quoted", cur, done)
                   ELSE IF c = "," THEN CsvScan(line, i + 1, "start", <<>>, Append(done, cur))
                   ELSE CsvScan(line, i + 1, "field", Append(cur, c), done)
              [] st = "field" ->
                   IF c = "," THEN CsvScan(line, i + 1, "start", <<>>, Append(done, cur))
                   ELSE CsvScan(line, i + 1, "field", Append(cur, c), done)
              [] st = "quoted" ->
                   IF c = "\"" THEN CsvScan(line, i + 1, "quote_in_quoted", cur, done)
                   ELSE CsvScan(line, i + 1, "quoted", Append(cur, c), done)
              [] OTHER ->
                   IF c = "\"" THEN CsvScan(line, i + 1, "quoted", Append(cur, c), done)
                   ELSE IF c = "," THEN CsvScan(line, i + 1, "start", <<>>, Append(done, cur))
                   ELSE CsvScan(line, i + 1, "field", Append(cur, c), done)

CsvCells(line) == CsvScan(line, 1, "start", <<>>, <<>>)

\* ---------------------------------------------------------- python dicts
\* A dict is a function from keys (python values) to python values.
DictSet(d, k, val) == [x \in DOMAIN d \cup {k} |-> IF x = k THEN val ELSE d[x]]
DictGet(d, k, default) == IF k \in DOMAIN d THEN d[k] ELSE default
EmptyDict == [x \in {} |-> None]

k_datetime == PyStr(<<"d", "a", "t", "e", "t", "i", "m", "e">>)
k_count    == PyStr(<<"c", "o", "u", "n", "t">>)
k_subtotal == PyStr(<<"s", "u", "b", "t", "o", "t", "a", "l">>)
k_tax_rate == PyStr(<<"t", "a", "x", "_", "r", "a", "t", "e">>)
k_total    == PyStr(<<"t", "o", "t", "a", "l">>)
k_memo     == PyStr(<<"m", "e", "m", "o">>)

\* ---------------------------------------------------------- history (CSV)
fieldnames == <<k_datetime, k_count, k_subtotal, k_tax_rate, k_total, k_memo>>

\* csv.DictWriter.writerow: the row's values in fieldnames order, "" where missing
DictWriterCells(row) == [i \in 1..Len(fieldnames) |-> str(DictGet(row, fieldnames[i], PyStr(<<>>)))]

\* append_history_row with the file opened "w" instead of "a"
append_history_row_truncating(file, row) ==
    LET header == IF ~file.exists THEN <<CsvLine([i \in 1..Len(fieldnames) |-> fieldnames[i].s])>> ELSE <<>>
    IN FileOf(header \o <<CsvLine(DictWriterCells(row))>>)

\* the body of history.csv after append_history_row(row)
append_history_row(file, row) ==
    LET file_exists == file.exists
        header == IF ~file_exists THEN <<CsvLine([i \in 1..Len(fieldnames) |-> fieldnames[i].s])>> ELSE <<>>
        row2 == IF k_memo \notin DOMAIN row THEN DictSet(row, k_memo, PyStr(<<>>)) ELSE row
    IN FileOf(file.body \o header \o <<CsvLine(DictWriterCells(row2))>>)

\* csv.DictReader: one row as a dict; cells past the header go under the key None,
\* header names past the cells map to None
DictReaderRow(names, cells) ==
    LET keys == {PyStr(names[i]) : i \in 1..Len(names)}
                  \cup (IF Len(cells) > Len(names) THEN {None} ELSE {})
        last(k) == CHOOSE i \in 1..Len(names) : names[i] = k.s /\ \A j \in (i + 1)..Len(names) : names[j] # k.s
    IN [k \in keys |->
          IF k = None THEN [py |-> "list", items |-> SubSeq(cells, Len(names) + 1, Len(cells))]
          ELSE IF last(k) <= Len(cells) THEN PyStr(cells[last(k)])
          ELSE None]

RECURSIVE DictReaderRows(_, _)
DictReaderRows(names, lines) ==
    IF lines = <<>> THEN <<>>
    ELSE LET cells == CsvCells(Head(lines))
         IN (IF cells = <<>> THEN <<>> ELSE <<DictReaderRow(names, cells)>>)
              \o DictReaderRows(names, Tail(lines))

read_history_rows(file) ==
    IF ~file.exists THEN <<>>
    ELSE IF file.body = <<>> THEN <<>>
    ELSE LET rows == DictReaderRows(CsvCells(Head(file.body)), Tail(file.body))
         IN [i \in 1..Len(rows) |->
               IF k_memo \notin DOMAIN rows[i] THEN DictSet(rows[i], k_memo, PyStr(<<>>)) ELSE rows[i]]

\* delete_history_file emptying the file instead of removing it
delete_history_file_truncates(file) ==
    IF file.exists THEN [ret |-> TRUE, file |-> FileOf(<<>>)] ELSE [ret |-> FALSE, file |-> file]

\* [ret, file]: the value returned and history.csv afterwards
delete_history_file(file) ==
    IF file.exists THEN [ret |-> TRUE, file |-> NoFile] ELSE [ret |-> FALSE, file |-> file]

\* -------------------------------------------------------- settings (JSON)
\* The body of settings.json is its sequence of JSON tokens.  A number token
\* carries the float it denotes (repr and float() of a float round-trip).
Tok(p) == [t |-> p]
TokStr(s) == [t |-> "str", s |-> s]
TokNum(x) == [t |-> "num", x |-> x]
TokNull == [t |-> "null"]

PyDict(d) == [py |-> "dict", d |-> d]
PyList(xs) == [py |-> "list", items |-> xs]
JSONDecodeError == [py |-> "JSONDecodeError"]

k_theme == PyStr(<<"t", "h", "e", "m", "e">>)
\* the order in which json.dump writes the members (it writes in insertion order; the
\* order of the members in the file decides nothing here)
KeyOrder == <<k_tax_rate, k_theme>>

ScalarTok(value) ==
    IF value.py = "float" THEN TokNum(value)
    ELSE IF value.py = "str" THEN TokStr(value.s)
    ELSE TokNull

RECURSIVE DumpMembers(_, _)
DumpMembers(d, keys) ==
    IF keys = <<>> THEN <<>>
    ELSE LET rest == DumpMembers(d, Tail(keys))
         IN IF Head(keys) \notin DOMAIN d THEN rest
            ELSE <<TokStr(Head(keys).s), Tok(":"), ScalarTok(d[Head(keys)])>>
                   \o (IF rest = <<>> THEN <<>> ELSE <<Tok(",")>> \o rest)

\* json.dump of a dict of scalars
json_dump(settings) == <<Tok("{")>> \o DumpMembers(settings.d, KeyOrder) \o <<Tok("}")>>

IsScalarTok(tok) == tok.t \in {"str", "num", "null"}
ScalarVal(tok) == IF tok.t = "str" THEN PyStr(tok.s) ELSE IF tok.t = "num" THEN tok.x ELSE None

\* "key : scalar" members separated by ","
IsMembers(inner) ==
    \/ inner = <<>>
    \/ /\ (Len(inner) + 1) % 4 = 0
       /\ \A i \in 1..Len(inner) :
             CASE i % 4 = 1 -> inner[i].t = "str"
               [] i % 4 = 2 -> inner[i].t = ":"
               [] i % 4 = 3 -> IsScalarTok(inner[i])
               [] OTHER -> inner[i].t = ","

\* the dict of the members: a repeated key keeps its last value
MembersDict(inner) ==
    LET m == (Len(inner) + 1) \div 4
        key(j) == PyStr(inner[4 * j - 3].s)
        last(k) == CHOOSE j \in 1..m : key(j) = k /\ \A h \in (j + 1)..m : key(h) # k
    IN [k \in {key(j) : j \in 1..m} |-> ScalarVal(inner[4 * last(k) - 1])]

IsElements(inner) ==
    \/ inner = <<>>
    \/ /\ Len(inner) % 2 = 1
       /\ \A i \in 1..Len(inner) : IF i % 2 = 1 THEN IsScalarTok(inner[i]) ELSE inner[i].t = ","

\* json.load: a scalar, an object of scalars or an array of scalars; anything else
\* (an empty or truncated file, stray tokens) raises JSONDecodeError
json_load(toks) ==
    LET inner == SubSeq(toks, 2, Len(toks) - 1)
    IN IF Len(toks) = 1 /\ IsScalarTok(toks[1]) THEN ScalarVal(toks[1])
       ELSE IF Len(toks) >= 2 /\ toks[1].t = "{" /\ toks[Len(toks)].t = "}" /\ IsMembers(inner)
       THEN PyDict(MembersDict(inner))
       ELSE IF Len(toks) >= 2 /\ toks[1].t = "[" /\ toks[Len(toks)].t = "]" /\ IsElements(inner)
       THEN PyList([i \in 1..((Len(inner) + 1) \div 2) |-> ScalarVal(inner[2 * i - 1])])
       ELSE JSONDecodeError

\* sub in s, for strings
Contains(s, sub) == \E i \in 0..(Len(s) - Len(sub)) : SubSeq(s, i + 1, i + Len(sub)) = sub

\* 0.10
DefaultTaxRate == Float(One \div 10)
default == PyDict([k \in {k_tax_rate} |-> DefaultTaxRate])

\* the value load_settings() returns; every exception of the try block gives default
load_settings(file) ==
    IF ~file.exists THEN default
    ELSE LET data == json_load(file.body)
         IN IF data = JSONDecodeError THEN default
            ELSE IF data.py = "dict"
            THEN IF k_tax_rate \notin DOMAIN data.d
                 THEN PyDict(DictSet(data.d, k_tax_rate, DefaultTaxRate))
                 ELSE data
            ELSE IF data.py = "str"
            THEN IF Contains(data.s, k_tax_rate.s) THEN data ELSE default
            ELSE IF data.py = "list"
            THEN IF \E i \in 1..Len(data.items) : data.items[i] = k_tax_rate THEN data ELSE default
            ELSE default

\* save_settings writing the tax rate alone
save_settings_tax_only(settings) ==
    FileOf(json_dump(PyDict([k \in {k_tax_rate} |-> settings.d[k]])))

\* settings.json after save_settings(settings)
save_settings(settings) == FileOf(json_dump(settings))

\* line 138: float(settings.get("tax_rate", 0.10)), or an exception that ends the run
tax_rate_of(settings) ==
    IF settings.py # "dict" THEN [py |-> "AttributeError"]
    ELSE LET x == DictGet(settings.d, k_tax_rate, DefaultTaxRate)
         IN IF x.py = "float" THEN x
            ELSE IF x.py = "str" THEN float(x.s)
            ELSE [py |-> "TypeError"]

\* ------------------------------------------------------------ list.sort
Reverse(a) == [i \in 1..Len(a) |-> a[Len(a) + 1 - i]]

\* count_run: the end of the run that starts at a[1], given its first i elements
RECURSIVE RunEnd(_, _, _)
RunEnd(a, i, descending) ==
    IF i = Len(a) THEN i
    ELSE IF descending
    THEN IF Lt(a[i + 1][2], a[i][2]) THEN RunEnd(a, i + 1, descending) ELSE i
    ELSE IF Lt(a[i + 1][2], a[i][2]) THEN i ELSE RunEnd(a, i + 1, descending)

\* binarysort: where pivot goes in a[l .. r-1]
RECURSIVE BinPos(_, _, _, _)
BinPos(a, pivot, l, r) ==
    IF l >= r THEN l
    ELSE LET p == l + ((r - l) \div 2)
         IN IF Lt(pivot[2], a[p][2]) THEN BinPos(a, pivot, l, p) ELSE BinPos(a, pivot, p + 1, r)

\* binarysort: a[1 .. start-1] is sorted; insert a[start], a[start+1], ...
RECURSIVE BinarySort(_, _)
BinarySort(a, start) ==
    IF start > Len(a) THEN a
    ELSE LET l == BinPos(a, a[start], 1, start)
         IN BinarySort(SubSeq(a, 1, l - 1) \o <<a[start]>> \o SubSeq(a, l, start - 1)
                         \o SubSeq(a, start + 1, Len(a)), start + 1)

\* list.sort() of <<label, key>> pairs by key, as CPython sorts fewer than 64
\* elements: the first run is found (and reversed when strictly descending), the
\* rest is inserted by binary search.  Only "<" on the keys is used.
ListSort(a) ==
    IF Len(a) < 2 THEN a
    ELSE LET descending == Lt(a[2][2], a[1][2])
             n == RunEnd(a, 2, descending)
             first == IF descending THEN Reverse(SubSeq(a, 1, n)) \o SubSeq(a, n + 1, Len(a)) ELSE a
         IN BinarySort(first, n + 1)

\* sorted(items, key=lambda x: x[1], reverse=True): reversed, sorted, reversed again
sorted_reverse(a) == Reverse(ListSort(Reverse(a)))

\* ------------------------------------------------------------ graph page
TopN == 10
SliderMin == 5
SliderMax == 50
SliderDefault == 15

\* rows[:n]
FirstN(rows, n) == SubSeq(rows, 1, IF n < Len(rows) THEN n ELSE Len(rows))

\* rows[-n:]
LastN(rows, n) ==
    IF n = 0 \/ n >= Len(rows) THEN rows ELSE SubSeq(rows, Len(rows) - n + 1, Len(rows))

\* dt[5:16] if len(dt) >= 16 else dt
label_of(dt) == IF Len(dt) >= 16 THEN SubSeq(dt, 6, 16) ELSE dt

\* float(r.get("total", 0)), 0.0 when that raises
total_of(r) ==
    LET x == DictGet(r, k_total, PyInt(0))
    IN IF x.py = "str" THEN (IF float(x.s) = ValueError THEN Float(0) ELSE float(x.s))
       ELSE IF x.py = "int" THEN Float(x.n * One)
       ELSE Float(0)

\* section 2: the parallel lists built from the last n rows
recent_trend(rows, n) ==
    LET recent == LastN(rows, n)
    IN [x_labels |-> [i \in 1..Len(recent) |-> label_of(DictGet(recent[i], k_datetime, PyStr(<<>>)).s)],
        totals   |-> [i \in 1..Len(recent) |-> total_of(recent[i])],
        memos    |-> [i \in 1..Len(recent) |-> DictGet(recent[i], k_memo, PyStr(<<>>))]]

no_memo == <<"(", "n", "o", " ", "m", "e", "m", "o", ")">>

\* (r.get("memo", "") or "").strip(), "(no memo)" when that is empty
bucket_of(r) ==
    LET m == DictGet(r, k_memo, PyStr(<<>>))
        t == IF m.py = "str" THEN strip(m.s) ELSE <<>>
    IN IF t = <<>> THEN no_memo ELSE t

\* buckets[memo] = buckets.get(memo, 0.0) + t; the dict keeps first-insertion order
BucketAdd(buckets, memo, t) ==
    IF \E i \in 1..Len(buckets) : buckets[i][1] = memo
    THEN [i \in 1..Len(buckets) |->
            IF buckets[i][1] = memo THEN <<memo, FAdd(buckets[i][2], t)>> ELSE buckets[i]]
    ELSE Append(buckets, <<memo, FAdd(Float(0), t)>>)

RECURSIVE buckets_of(_)
buckets_of(rows) ==
    IF rows = <<>> THEN <<>>
    ELSE LET r == rows[Len(rows)]
         IN BucketAdd(buckets_of(SubSeq(rows, 1, Len(rows) - 1)), bucket_of(r), total_of(r))

\* section 3: sorted(buckets.items(), key=lambda x: x[1], reverse=True)[:10]
memo_totals(rows) ==
    LET all == sorted_reverse(buckets_of(rows))
    IN SubSeq(all, 1, IF Len(all) < TopN THEN Len(all) ELSE TopN)

\* ------------------------------------------------------------ session cart
\* st.session_state.prices after .pop(0)
pop_first(xs) == Tail(xs)

\* st.session_state.prices after .pop()
pop(xs) == SubSeq(xs, 1, Len(xs) - 1)

\* the save and clear buttons drawn whatever the cart holds
cart_buttons_always(xs) == TRUE

\* line 187: the save and clear buttons exist only while the cart is non-empty
cart_buttons_shown(xs) == xs # <<>>

\* -------------------------------------------------------------- the state
VARIABLES
    dirExists,     \* the data directory exists
    settingsFile,  \* data/settings.json
    historyFile,   \* data/history.csv
    prices,        \* st.session_state.prices
    memo,          \* st.session_state.memo (the memo text input)
    page,          \* the sidebar radio
    confirm,       \* the confirmation checkbox of the history page
    n,             \* the slider of the graph page
    settings,      \* the module's settings, as the last run loaded it
    ok,            \* what delete_history_file() returned in the last run, if called
    notice,        \* the message the last run left on the page
    trend,         \* the lists section 2 of the graph page plotted in the last run
    items          \* the pairs section 3 of the graph page plotted in the last run

vars == <<dirExists, settingsFile, historyFile, prices, memo, page, confirm, n,
          settings, ok, notice, trend, items>>

PyBool(b) == [py |-> "bool", b |-> b]

\* load_settings writing the default when there is no file
load_settings_file_creates(file) == IF ~file.exists THEN save_settings(default) ELSE file

\* settings.json after load_settings(): it is opened for reading only
load_settings_file(file) == file

\* lines 124-138 of every run: the directory is made, the settings are loaded
\* and tax_rate is taken from them
tax_rate == tax_rate_of(load_settings(settingsFile))
RunOK == IsFloat(tax_rate)

\* what a run that does not touch the files, the cart or the graph leaves behind
Loaded ==
    /\ dirExists' = TRUE
    /\ settingsFile' = load_settings_file(settingsFile)
    /\ settings' = load_settings(settingsFile)

NoGraph == trend' = None /\ items' = None

\* the graph page as rendered for history file f and slider value k
Graph(f, k) ==
    LET rows == read_history_rows(f)
    IN IF rows = <<>> THEN NoGraph
       ELSE /\ trend' = recent_trend(rows, k)
            /\ items' = PyList(memo_totals(rows))

\* ------------------------------------------------------------ the actions
\* line 138 raises: the run ends before any page is drawn
RunFails ==
    /\ ~RunOK
    /\ Loaded
    /\ notice' = "exception"
    /\ ok' = None
    /\ NoGraph
    /\ UNCHANGED <<historyFile, prices, memo, page, confirm, n>>

\* the sidebar radio: a widget that is not drawn in a run loses its value
SelectPage(p) ==
    /\ RunOK
    /\ Loaded
    /\ page' = p
    /\ memo' = IF p = "calc" /\ page = "calc" THEN memo ELSE <<>>
    /\ confirm' = IF p = "history" /\ page = "history" THEN confirm ELSE FALSE
    /\ n' = IF p = "graph" /\ page = "graph" THEN n ELSE SliderDefault
    /\ notice' = "none"
    /\ ok' = None
    /\ IF p = "graph" THEN Graph(historyFile, n') ELSE NoGraph
    /\ UNCHANGED <<historyFile, prices>>

EditMemo(m) ==
    /\ RunOK /\ page = "calc"
    /\ Loaded
    /\ memo' = m
    /\ notice' = "none"
    /\ ok' = None
    /\ NoGraph
    /\ UNCHANGED <<historyFile, prices, page, confirm, n>>

\* the form: lines 169-175
SubmitPrice(price_text) ==
    /\ RunOK /\ page = "calc"
    /\ Loaded
    /\ LET value == parse_price(price_text)
       IN IF value = None
          THEN prices' = prices /\ notice' = "skipped"
          ELSE prices' = Append(prices, value) /\ notice' = "added"
    /\ ok' = None
    /\ NoGraph
    /\ UNCHANGED <<historyFile, memo, page, confirm, n>>

\* lines 177-182
Undo ==
    /\ RunOK /\ page = "calc"
    /\ Loaded
    /\ IF prices # <<>>
       THEN prices' = pop(prices) /\ notice' = "undone"
       ELSE prices' = prices /\ notice' = "nothing_to_undo"
    /\ ok' = None
    /\ NoGraph
    /\ UNCHANGED <<historyFile, memo, page, confirm, n>>

\* the row lines 196-205 hand to append_history_row
history_row(now) ==
    LET subtotal == sum(prices)
    IN (k_datetime :> PyStr(strftime(now)))
         @@ (k_count :> PyInt(Len(prices)))
         @@ (k_subtotal :> round2(subtotal))
         @@ (k_tax_rate :> tax_rate)
         @@ (k_total :> round2_total(subtotal, tax_rate))
         @@ (k_memo :> PyStr(memo))

\* lines 187-206
SaveToHistory(now) ==
    /\ RunOK /\ page = "calc"
    /\ cart_buttons_shown(prices)
    /\ Loaded
    /\ historyFile' = append_history_row(historyFile, history_row(now))
    /\ notice' = "saved"
    /\ ok' = None
    /\ NoGraph
    /\ UNCHANGED <<prices, memo, page, confirm, n>>

\* lines 208-212; st.rerun() draws the page again without the message
ClearCart ==
    /\ RunOK /\ page = "calc"
    /\ cart_buttons_shown(prices)
    /\ Loaded
    /\ prices' = <<>>
    /\ notice' = "none"
    /\ ok' = None
    /\ NoGraph
    /\ UNCHANGED <<historyFile, memo, page, confirm, n>>

ToggleConfirm ==
    /\ RunOK /\ page = "history"
    /\ Loaded
    /\ confirm' = ~confirm
    /\ notice' = "none"
    /\ ok' = None
    /\ NoGraph
    /\ UNCHANGED <<historyFile, prices, memo, page, n>>

\* lines 236-242; st.rerun() draws the page again without the message
DeleteHistory ==
    /\ RunOK /\ page = "history"
    /\ confirm
    /\ Loaded
    /\ historyFile' = delete_history_file(historyFile).file
    /\ ok' = PyBool(delete_history_file(historyFile).ret)
    /\ notice' = "none"
    /\ NoGraph
    /\ UNCHANGED <<prices, memo, page, confirm, n>>

MoveSlider(k) ==
    /\ RunOK /\ page = "graph"
    /\ Loaded
    /\ n' = k
    /\ notice' = "none"
    /\ ok' = None
    /\ Graph(historyFile, k)
    /\ UNCHANGED <<historyFile, prices, memo, page, confirm>>

\* lines 391-395: new_tax_percent is the number input's value, in percent
SaveTaxRate(new_tax_percent) ==
    /\ RunOK /\ page = "settings"
    /\ dirExists' = TRUE
    /\ LET loaded == load_settings(settingsFile)
           changed == PyDict(DictSet(loaded.d, k_tax_rate, Float(new_tax_percent.v \div 100)))
       IN /\ settingsFile' = save_settings(changed)
          /\ settings' = load_settings(save_settings(changed))
    /\ notice' = "none"
    /\ ok' = None
    /\ NoGraph
    /\ UNCHANGED <<historyFile, prices, memo, page, confirm, n>>

\* ------------------------------------------------------------- the inputs
\* price texts: the form's examples, and texts the parser rejects
MainTexts == {<<"2", ".", "5">>, <<"-", "1">>}
CartTexts == {<<"1", "2", "0">>, <<"9", "8", "0", ".", "5">>, <<"1", ",", "2", "0", "0">>, <<"0">>,
              <<"a", "b", "c">>, <<"-", "5">>, <<" ">>}
MemoTexts == {<<"5">>, <<"7">>, <<"n", "a", "n">>}
Chars == {" ", ",", "-", ".", "0", "1", "n", "a"}
RECURSIVE TextsOfLen(_)
TextsOfLen(len) == IF len = 0 THEN {<<>>} ELSE {Append(t, c) : t \in TextsOfLen(len - 1), c \in Chars}
AllTexts == UNION {TextsOfLen(len) : len \in 0..MaxLen}

MainMemos == {<<>>, <<"A">>}
MemoMemos == {<<"A">>, <<"B">>, <<"C">>}

\* values of the tax rate input, in percent
MainPercents == {Float(8 * One)}

Clock == {[Y |-> 2026, M |-> 1, D |-> 31, h |-> 23, m |-> 10, s |-> 5]}

\* the graph page is explored by SpecMemo and SpecTrend
MainPages == {"calc", "history", "settings"}

\* a history.csv written before the memo column existed
LegacyHeader == CsvLine([i \in 1..(Len(fieldnames) - 1) |-> fieldnames[i].s])
LegacyFile ==
    FileOf(<<LegacyHeader,
             CsvLine(<<strftime([Y |-> 2025, M |-> 12, D |-> 1, h |-> 9, m |-> 0, s |-> 0]),
                       <<"1">>, <<"1", "0", "0", ".", "0">>, <<"0", ".", "1">>,
                       <<"1", "1", "0", ".", "0">>>>)>>)

\* settings.json: cut short while being written, and a JSON string
TruncatedSettings == FileOf(<<Tok("{"), TokStr(k_tax_rate.s)>>)
StringSettings == FileOf(<<TokStr(k_tax_rate.s)>>)

\* -------------------------------------------------------- specifications
\* the state before the first run, given the files found on disk
InitWith(settingsFiles, historyFiles) ==
    /\ settingsFile \in settingsFiles
    /\ historyFile \in historyFiles
    /\ dirExists \in {b \in BOOLEAN : (settingsFile.exists \/ historyFile.exists) => b}
    /\ prices = <<>>
    /\ memo = <<>>
    /\ page = "calc"
    /\ confirm = FALSE
    /\ n = SliderDefault
    /\ settings = None
    /\ ok = None
    /\ notice = "none"
    /\ trend = None
    /\ items = None

Rows == read_history_rows(historyFile)

Init == InitWith({NoFile, TruncatedSettings, StringSettings}, {NoFile, LegacyFile})

Next ==
    \/ RunFails
    \/ \E p \in MainPages : SelectPage(p)
    \/ \E m \in MainMemos : EditMemo(m)
    \/ \E t \in MainTexts : Len(prices) < MaxCart /\ SubmitPrice(t)
    \/ Undo
    \/ \E now \in Clock : Len(historyFile.body) <= MaxRows /\ SaveToHistory(now)
    \/ ClearCart
    \/ ToggleConfirm
    \/ DeleteHistory
    \/ \E pct \in MainPercents : SaveTaxRate(pct)

Spec == Init /\ [][Next]_vars

\* the session cart alone
InitCart == InitWith({NoFile}, {NoFile})

NextCart ==
    \/ \E t \in CartTexts : Len(prices) < MaxCart /\ SubmitPrice(t)
    \/ Undo
    \/ ClearCart

SpecCart == InitCart /\ [][NextCart]_vars

\* the session cart, every text of at most MaxLen characters submitted
NextParse ==
    \/ \E t \in AllTexts : Len(prices) < MaxCart /\ SubmitPrice(t)
    \/ Undo
    \/ ClearCart

SpecParse == InitCart /\ [][NextParse]_vars

\* tallies saved under several memos, and the graph page
NextMemo ==
    \/ \E p \in {"calc", "graph"} : SelectPage(p)
    \/ \E m \in MemoMemos : EditMemo(m)
    \/ \E t \in MemoTexts : Len(prices) < MaxMemoCart /\ SubmitPrice(t)
    \/ \E now \in Clock : Len(historyFile.body) <= MaxMemoRows /\ SaveToHistory(now)
    \/ ClearCart

SpecMemo == InitCart /\ [][NextMemo]_vars

\* the graph page over history files of up to MaxHist rows
TrendLines ==
    {CsvLine(<<strftime([Y |-> 2026, M |-> 1, D |-> 31, h |-> 23, m |-> 10, s |-> 5]),
               <<"1">>, <<"2", ".", "5">>, <<"0", ".", "1">>, <<"2", ".", "7", "5">>, <<"A">>>>),
     CsvLine(<<<<"2", "0", "2", "6", "-", "0", "2">>,
               <<"2">>, <<"5", ".", "0">>, <<"0", ".", "1">>, <<"a", "b", "c">>, <<>>>>)}

RECURSIVE LinesOfLen(_)
LinesOfLen(len) == IF len = 0 THEN {<<>>} ELSE {Append(ls, l) : ls \in LinesOfLen(len - 1), l \in TrendLines}

Header == CsvLine([i \in 1..Len(fieldnames) |-> fieldnames[i].s])
TrendFiles == {FileOf(<<Header>> \o ls) : ls \in UNION {LinesOfLen(len) : len \in 0..MaxHist}}

\* slider values: those up to one past the longest file, and the largest
Windows == {k \in SliderMin..SliderMax : k <= MaxHist + 1 \/ k = SliderMax}

InitTrend == InitWith({NoFile}, TrendFiles)

NextTrend ==
    \/ \E p \in {"graph", "history"} : SelectPage(p)
    \/ \E k \in Windows : MoveSlider(k)

SpecTrend == InitTrend /\ [][NextTrend]_vars

\* the settings store, called directly
ThemeX == PyStr(<<"x">>)
SettingsFiles ==
    {NoFile, FileOf(<<>>), TruncatedSettings, StringSettings,
     FileOf(<<TokStr(<<"x">>)>>),
     FileOf(<<Tok("["), TokStr(k_tax_rate.s), Tok("]")>>),
     FileOf(<<Tok("["), TokStr(<<"x">>), Tok("]")>>),
     FileOf(<<TokNum(Float(5 * One))>>),
     FileOf(<<TokNull>>),
     FileOf(<<Tok("{"), Tok("}")>>),
     FileOf(<<Tok("{"), TokStr(k_theme.s), Tok(":"), TokStr(ThemeX.s), Tok("}")>>),
     FileOf(<<Tok("{"), TokStr(k_tax_rate.s), Tok(":"), TokNum(Float(8 * Cent)), Tok("}")>>),
     FileOf(<<Tok("{"), TokStr(k_theme.s), Tok(":"), TokStr(ThemeX.s), Tok(","),
              TokStr(k_tax_rate.s), Tok(":"), TokNum(Float(8 * Cent)), Tok("}")>>),
     FileOf(<<Tok("{"), TokStr(k_tax_rate.s), Tok(":"), TokStr(<<"a", "b", "c">>), Tok("}")>>)}

\* the mappings handed to save_settings: tax_rate, with or without another key
SettingsArgs ==
    {PyDict(d) : d \in UNION {[ks -> {Float(0), Float(8 * Cent), Float(One), ThemeX, None}] :
                                ks \in {{k_tax_rate}, {k_tax_rate, k_theme}}}}

CallLoadSettings ==
    /\ Loaded
    /\ UNCHANGED <<historyFile, prices, memo, page, confirm, n, ok, notice, trend, items>>

CallSaveSettings(s) ==
    /\ dirExists' = TRUE
    /\ settingsFile' = save_settings(s)
    /\ UNCHANGED <<historyFile, prices, memo, page, confirm, n, settings, ok, notice, trend, items>>

InitSettings == InitWith(SettingsFiles, {NoFile})

NextSettings ==
    \/ CallLoadSettings
    \/ \E s \in SettingsArgs : CallSaveSettings(s)

SpecSettings == InitSettings /\ [][NextSettings]_vars

\* ------------------------------------------------------------ the claims
IsPrefix(a, b) == Len(a) <= Len(b) /\ \A i \in 1..Len(a) : a[i] = b[i]
LastRow(f) == read_history_rows(f)[Len(read_history_rows(f))]

\* C1: after a tally is saved, the last row read back from history.csv has the
\* same datetime, count, subtotal, tax_rate, total and memo as the row that was
\* appended (memo "" when the row had none), whatever the file held before.
AppendThenRead ==
    [][\A now \in Clock :
         SaveToHistory(now) =>
           /\ read_history_rows(historyFile') # <<>>
           /\ \A i \in 1..Len(fieldnames) :
                DictGet(LastRow(historyFile'), fieldnames[i], None)
                  = PyStr(str(DictGet(history_row(now), fieldnames[i], PyStr(<<>>))))]_vars

\* C2: no step other than the deletion of the whole history changes, removes or
\* reorders a row already in history.csv: the rows read before the step are a
\* prefix of the rows read after it; the deletion leaves no row.
LedgerAppendOnly ==
    [][IF DeleteHistory
       THEN read_history_rows(historyFile') = <<>>
       ELSE \/ historyFile' = historyFile
            \/ IsPrefix(read_history_rows(historyFile), read_history_rows(historyFile'))]_vars

\* a tally was saved to a history that already held a row
LedgerGrew == notice = "saved" /\ Len(Rows) >= 2

\* C3: delete_history_file() returns False and changes nothing when history.csv
\* is absent; when it is present it returns True, the file is gone and the next
\* read returns no row.
DeleteContract ==
    [][DeleteHistory =>
         IF historyFile.exists
         THEN /\ ok' = PyBool(TRUE)
              /\ ~historyFile'.exists
              /\ read_history_rows(historyFile') = <<>>
         ELSE /\ ok' = PyBool(FALSE)
              /\ historyFile' = historyFile
              /\ settingsFile' = settingsFile
              /\ prices' = prices]_vars

\* the history was deleted while it existed
HistoryDeleted == ok = PyBool(TRUE) /\ ~historyFile.exists /\ page = "history"

\* C4: for every mapping s with the key tax_rate, load_settings() after
\* save_settings(s) returns s, whatever settings.json held before.
SettingsRoundTrip ==
    [][\A s \in SettingsArgs : CallSaveSettings(s) => load_settings(settingsFile') = s]_vars

\* a mapping of two keys was saved and then loaded
SavedThenLoaded ==
    /\ settings \in SettingsArgs
    /\ k_theme \in DOMAIN settings.d
    /\ settings.d[k_tax_rate] = Float(One)
    /\ settingsFile = save_settings(settings)

\* C5: load_settings() never creates or changes settings.json, and returns the
\* default {tax_rate: 0.10} when the file is absent or is not JSON.
Malformed(file) == file.exists /\ json_load(file.body) = JSONDecodeError

CartIsStack ==
    [][/\ \A t \in CartTexts :
            SubmitPrice(t) => prices' = prices \/ (Len(prices') = Len(prices) + 1 /\ IsPrefix(prices, prices'))
       /\ Undo => IF prices # <<>>
                  THEN Len(prices') = Len(prices) - 1 /\ IsPrefix(prices', prices)
                  ELSE prices' = <<>> /\ notice' = "nothing_to_undo"
       /\ ClearCart => prices' = <<>>]_vars

\* undo took the top off a cart of several prices
UndoneOne == notice = "undone" /\ Len(prices) >= 2

\* C7: every element of the cart is a non-negative number, the parse of a
\* submitted text.
CartHoldsPrices ==
    \A i \in 1..Len(prices) :
        /\ Ge(prices[i], Float(0))
        /\ \E t \in AllTexts : parse_price(t) = prices[i]

\* C8: the memo totals are at most 10 pairs in non-increasing order of sum, one
\* per bucket, each sum the sum of total over the rows of the bucket, and no
\* bucket left out has a greater sum than a listed one.
RECURSIVE BucketSum(_, _)
BucketSum(rows, b) ==
    IF rows = <<>> THEN Float(0)
    ELSE LET r == rows[Len(rows)]
             rest == BucketSum(SubSeq(rows, 1, Len(rows) - 1), b)
         IN IF bucket_of(r) = b THEN FAdd(rest, total_of(r)) ELSE rest

MemoAggregation ==
    items # None =>
      LET its == items.items
          all == {bucket_of(Rows[i]) : i \in 1..Len(Rows)}
          listed == {its[i][1] : i \in 1..Len(its)}
      IN /\ Len(its) <= TopN
         /\ Cardinality(listed) = Len(its)
         /\ listed \subseteq all
         /\ \A i \in 1..Len(its) : its[i][2] = BucketSum(Rows, its[i][1])
         /\ \A i \in 1..Len(its) : \A j \in (i + 1)..Len(its) : ~Lt(its[i][2], its[j][2])
         /\ \A b \in all \ listed : \A i \in 1..Len(its) : ~Lt(its[i][2], BucketSum(Rows, b))

\* C9: the trend lists have min(n, L) entries each, and their i-th entries are
\* the label, total and memo of the i-th of the last min(n, L) rows of the file.
TrendWindow ==
    trend # None =>
      LET L == Len(Rows)
          w == IF n < L THEN n ELSE L
      IN /\ Len(trend.x_labels) = w /\ Len(trend.totals) = w /\ Len(trend.memos) = w
         /\ \A i \in 1..w :
              LET r == Rows[L - w + i]
              IN /\ trend.x_labels[i] = label_of(r[k_datetime].s)
                 /\ trend.totals[i] = total_of(r)
                 /\ trend.memos[i] = r[k_memo]

\* the graph page was drawn for a file with more rows than the window
WindowCut == trend # None /\ Len(Rows) > n /\ Len(trend.totals) = n

\* C10: a tally is saved only from a non-empty cart: every row of history.csv
\* has count >= 1, and the row a save appends has the number of prices in the cart.
CountOf(r) == DigitsVal(r[k_count].s)

CountsCommitted ==
    [][/\ \A now \in Clock :
            SaveToHistory(now) =>
              Len(prices) >= 1 /\ LastRow(historyFile')[k_count] = PyStr(NatStr(Len(prices)))
       /\ \/ historyFile' = historyFile
          \/ \A i \in 1..Len(read_history_rows(historyFile')) :
                CountOf(read_history_rows(historyFile')[i]) >= 1]_vars

\* a cart of two prices was saved
SavedTwo == notice = "saved" /\ Len(prices) = 2 /\ CountOf(LastRow(historyFile)) = 2

====
